---- MODULE Spec2Model ----
(***************************************************************************)
(* Model of the user-record command line tool: Perform and the four        *)
(* operations addItem, listItems, findUserById and removeUser.             *)
(*                                                                         *)
(* The repository holds two implementations: src/main.go and               *)
(* src/unnamed/part_000.  listItems, findUserById and Perform are the same *)
(* in both; addItem and removeUser differ.  The variable impl says which   *)
(* of the two is running; it is chosen at Init and never changes.          *)
(*                                                                         *)
(* Byte strings (file content, the -item text, what is written to the      *)
(* writer) are modelled as parsed shapes of text:                          *)
(*   kind "empty"    zero bytes                                            *)
(*   kind "garbage"  bytes that are not JSON                               *)
(*   kind "object"   one JSON object; body = <<its members in order>>      *)
(*   kind "array"    a JSON array of objects; body = the objects           *)
(*   kind "message"  a plain sentence; body = <<<<the pieces>>>>           *)
(* A member of an object is <<key, type, lexeme>> with type "str" or "num".*)
(* The writer is the io.Writer the caller passes to Perform; it is taken   *)
(* to be an in-memory buffer, fresh for each invocation, whose Write does  *)
(* not fail.  output is what the current invocation wrote to it.           *)
(*                                                                         *)
(* run and scenario are history variables: they record which invocations   *)
(* have been made since Init and take no part in what Perform does.        *)
(***************************************************************************)
EXTENDS Integers, Sequences, FiniteSets, TLC

VARIABLES impl, file, args, output, err, run, scenario

vars == <<impl, file, args, output, err, run, scenario>>

\* Arguments: the four flags as parseArgs returns them
Arguments(fileName, operation, item, id) ==
    [fileName |-> fileName, operation |-> operation, item |-> item, id |-> id]

(* ---------------------------------------------------------------- bounds *)
\* longest JSON array the backing file holds at Init
MaxFileLen == 2

(* ------------------------------------------------------------------ text *)
EmptyText == [kind |-> "empty", body |-> <<>>]
GarbageText == [kind |-> "garbage", body |-> <<>>]
ObjectText(members) == [kind |-> "object", body |-> <<members>>]
ArrayText(objects) == [kind |-> "array", body |-> objects]
MessageText(a, b, c) == [kind |-> "message", body |-> << << <<a, b, c>> >> >>]

\* len(data) of the code
len(data) == IF data.kind = "empty" THEN 0 ELSE 1

(* ---------------------------------------------------------------- errors *)
\* An error value is a sequence of strings; nil is the empty sequence.
nil == <<>>
ErrFileNameFlagMissing == <<"-fileName flag has to be specified">>
ErrOperationFlagMissing == <<"-operation flag has to be specified">>
ErrItemFlagMissing == <<"-item flag has to be specified">>
ErrIDFlagMissing == <<"-id flag has to be specified">>
ErrNotAllowed(operation) == <<"Operation ", operation, " not allowed!">>
ErrOpen(fileName) == <<"open ", fileName>>
ErrRead == <<"read">>
ErrSyntax == <<"json: syntax error">>
ErrType == <<"json: cannot unmarshal into Go value">>

\* the value of err before the first invocation has returned
NotCalled == <<"Perform has not been called">>

(* ------------------------------------------------------------------ User *)
\* strconv of the integers the model uses for the age field
Itoa(n) == CASE n = 0 -> "0" [] n = 34 -> "34" [] n = 50 -> "50"
Atoi(s) == CASE s = "0" -> 0 [] s = "34" -> 34 [] s = "50" -> 50
IntLexemes == {"0", "34", "50"}

User(id, email, age) == [ID |-> id, Email |-> email, Age |-> age]
ZeroUser == User("", "", 0)

\* encoding/json decoding one member into the struct: unknown keys are
\* skipped, a value of the wrong JSON type is an UnmarshalTypeError and
\* leaves the field alone.
MemberOK(m) ==
    CASE m[1] = "id" -> m[2] = "str"
      [] m[1] = "email" -> m[2] = "str"
      [] m[1] = "age" -> m[2] = "num" /\ m[3] \in IntLexemes
      [] OTHER -> TRUE

SetMember(u, m) ==
    IF ~MemberOK(m) THEN u
    ELSE CASE m[1] = "id" -> [u EXCEPT !.ID = m[3]]
           [] m[1] = "email" -> [u EXCEPT !.Email = m[3]]
           [] m[1] = "age" -> [u EXCEPT !.Age = Atoi(m[3])]
           [] OTHER -> u

RECURSIVE DecodeMembers(_, _)
DecodeMembers(u, members) ==
    IF members = <<>> THEN u
    ELSE DecodeMembers(SetMember(u, Head(members)), Tail(members))

MembersOK(members) == \A i \in 1..Len(members) : MemberOK(members[i])

\* json.Unmarshal(data, &user) with user a zero User
UnmarshalUser(data) ==
    CASE data.kind = "object" ->
            [err |-> IF MembersOK(data.body[1]) THEN nil ELSE ErrType,
             user |-> DecodeMembers(ZeroUser, data.body[1])]
      [] data.kind = "array" -> [err |-> ErrType, user |-> ZeroUser]
      [] OTHER -> [err |-> ErrSyntax, user |-> ZeroUser]

\* json.Unmarshal(data, &users) with users a nil []User
UnmarshalUsers(data) ==
    CASE data.kind = "array" ->
            [err |-> IF \A i \in 1..Len(data.body) : MembersOK(data.body[i])
                     THEN nil ELSE ErrType,
             users |-> [i \in 1..Len(data.body) |->
                            DecodeMembers(ZeroUser, data.body[i])]]
      [] data.kind = "object" -> [err |-> ErrType, users |-> <<>>]
      [] OTHER -> [err |-> ErrSyntax, users |-> <<>>]

\* json.Marshal of a User: the three fields in declaration order
MarshalMembers(u) ==
    << <<"id", "str", u.ID>>, <<"email", "str", u.Email>>,
       <<"age", "num", Itoa(u.Age)>> >>
MarshalUser(u) == ObjectText(MarshalMembers(u))
\* json.Marshal of a non-nil []User
MarshalUsers(users) ==
    ArrayText([i \in 1..Len(users) |-> MarshalMembers(users[i])])

\* index of the first element of users whose ID is id, 0 when there is none
RECURSIVE IndexFrom(_, _, _)
IndexFrom(users, id, i) ==
    IF i > Len(users) THEN 0
    ELSE IF users[i].ID = id THEN i
    ELSE IndexFrom(users, id, i + 1)
IndexOf(users, id) == IndexFrom(users, id, 1)

\* append(item[:i-1], item[i:]...) with i counted from 1
RemoveAt(users, i) ==
    [k \in 1..(Len(users) - 1) |-> IF k < i THEN users[k] ELSE users[k + 1]]

(* ------------------------------------------------------------ operations *)
\* What an operation leaves behind: the bytes written to the writer, the
\* error returned and the content of the backing file afterwards.
Ret(out, e, data) == [output |-> out, err |-> e, data |-> data]

\* io.ReadAll(file): the content, or a read error
ReadAll(data, readOK) ==
    IF readOK THEN [err |-> nil, data |-> data]
    ELSE [err |-> ErrRead, data |-> EmptyText]

\* addItem without the scan for a record of the same id
addItem_NoScan(data, readOK, item) ==
    LET rd == ReadAll(data, readOK)
        arr == UnmarshalUsers(rd.data)
        usr == UnmarshalUser(item)
    IN  IF rd.err # nil THEN Ret(EmptyText, rd.err, data)
        ELSE IF len(rd.data) = 0 THEN Ret(item, nil, data)
        ELSE IF arr.err # nil THEN Ret(EmptyText, arr.err, data)
        ELSE IF usr.err # nil THEN Ret(EmptyText, usr.err, data)
        ELSE Ret(MarshalUsers(Append(arr.users, usr.user)), nil, data)

\* addItem that saves the list it writes to the backing file as well
addItem_Saves(data, readOK, item) ==
    LET rd == ReadAll(data, readOK)
        arr == UnmarshalUsers(rd.data)
        usr == UnmarshalUser(item)
        all == MarshalUsers(Append(arr.users, usr.user))
    IN  IF rd.err # nil THEN Ret(EmptyText, rd.err, data)
        ELSE IF len(rd.data) = 0 THEN Ret(item, nil, data)
        ELSE IF arr.err # nil THEN Ret(EmptyText, arr.err, data)
        ELSE IF usr.err # nil THEN Ret(EmptyText, usr.err, data)
        ELSE IF IndexOf(arr.users, usr.user.ID) # 0
             THEN Ret(MessageText("Item with id ", usr.user.ID, " already exists"),
                      nil, data)
        ELSE Ret(all, nil, all)

\* addItem of src/main.go
addItem(data, readOK, item) ==
    LET rd == ReadAll(data, readOK)
        arr == UnmarshalUsers(rd.data)
        usr == UnmarshalUser(item)
    IN  IF rd.err # nil THEN Ret(EmptyText, rd.err, data)
        ELSE IF len(rd.data) = 0 THEN Ret(item, nil, data)
        ELSE IF arr.err # nil THEN Ret(EmptyText, arr.err, data)
        ELSE IF usr.err # nil THEN Ret(EmptyText, usr.err, data)
        ELSE IF IndexOf(arr.users, usr.user.ID) # 0
             THEN Ret(MessageText("Item with id ", usr.user.ID, " already exists"),
                      nil, data)
        ELSE Ret(MarshalUsers(Append(arr.users, usr.user)), nil, data)

\* addItem of part_000 that writes the item before it decodes it
addItem_000_WritesFirst(data, readOK, item) ==
    LET rd == ReadAll(data, readOK)
        arr == UnmarshalUsers(rd.data)
        usr == UnmarshalUser(item)
    IN  IF rd.err # nil THEN Ret(EmptyText, rd.err, data)
        ELSE IF arr.err # nil THEN Ret(EmptyText, arr.err, data)
        ELSE IF usr.err # nil THEN Ret(item, usr.err, data)
        ELSE IF IndexOf(arr.users, usr.user.ID) # 0
             THEN Ret(MessageText("Item with id ", usr.user.ID, " already exists"),
                      nil, data)
        ELSE Ret(MarshalUsers(Append(arr.users, usr.user)), nil, data)

\* addItem of src/unnamed/part_000
addItem_000(data, readOK, item) ==
    LET rd == ReadAll(data, readOK)
        arr == UnmarshalUsers(rd.data)
        usr == UnmarshalUser(item)
    IN  IF rd.err # nil THEN Ret(EmptyText, rd.err, data)
        ELSE IF arr.err # nil THEN Ret(EmptyText, arr.err, data)
        ELSE IF usr.err # nil THEN Ret(EmptyText, usr.err, data)
        ELSE IF IndexOf(arr.users, usr.user.ID) # 0
             THEN Ret(MessageText("Item with id ", usr.user.ID, " already exists"),
                      nil, data)
        ELSE Ret(MarshalUsers(Append(arr.users, usr.user)), nil, data)

\* listItems (the same in both files)
listItems(data, readOK) ==
    LET rd == ReadAll(data, readOK)
        arr == UnmarshalUsers(rd.data)
    IN  IF rd.err # nil THEN Ret(EmptyText, rd.err, data)
        ELSE IF len(rd.data) = 0 THEN Ret(EmptyText, nil, data)
        ELSE IF arr.err # nil THEN Ret(EmptyText, arr.err, data)
        ELSE Ret(MarshalUsers(arr.users), nil, data)

\* findUserById that goes on scanning after a match: the last one wins
RECURSIVE LastIndexFrom(_, _, _)
LastIndexFrom(users, id, i) ==
    IF i < 1 THEN 0
    ELSE IF users[i].ID = id THEN i
    ELSE LastIndexFrom(users, id, i - 1)

findUserById_Last(data, readOK, id) ==
    LET rd == ReadAll(data, readOK)
        arr == UnmarshalUsers(rd.data)
        i == LastIndexFrom(arr.users, id, Len(arr.users))
    IN  IF rd.err # nil THEN Ret(EmptyText, rd.err, data)
        ELSE IF len(rd.data) = 0 THEN Ret(EmptyText, nil, data)
        ELSE IF arr.err # nil THEN Ret(EmptyText, arr.err, data)
        ELSE IF i # 0 THEN Ret(MarshalUser(arr.users[i]), nil, data)
        ELSE Ret(EmptyText, nil, data)

\* findUserById (the same in both files)
findUserById(data, readOK, id) ==
    LET rd == ReadAll(data, readOK)
        arr == UnmarshalUsers(rd.data)
        i == IndexOf(arr.users, id)
    IN  IF rd.err # nil THEN Ret(EmptyText, rd.err, data)
        ELSE IF len(rd.data) = 0 THEN Ret(EmptyText, nil, data)
        ELSE IF arr.err # nil THEN Ret(EmptyText, arr.err, data)
        ELSE IF i # 0 THEN Ret(MarshalUser(arr.users[i]), nil, data)
        ELSE Ret(EmptyText, nil, data)

\* removeUser of src/main.go
removeUser(data, readOK, id) ==
    LET rd == ReadAll(data, readOK)
        arr == UnmarshalUsers(rd.data)
        i == IndexOf(arr.users, id)
    IN  IF rd.err # nil THEN Ret(EmptyText, rd.err, data)
        ELSE IF len(rd.data) = 0 THEN Ret(EmptyText, nil, data)
        ELSE IF arr.err # nil THEN Ret(EmptyText, arr.err, data)
        ELSE IF i # 0 THEN Ret(MarshalUsers(RemoveAt(arr.users, i)), nil, data)
        ELSE Ret(MessageText("Item with id ", id, " not found"), nil, data)

\* removeUser of src/unnamed/part_000
removeUser_000(data, readOK, id) ==
    LET rd == ReadAll(data, readOK)
        arr == UnmarshalUsers(rd.data)
        i == IndexOf(arr.users, id)
    IN  IF rd.err # nil THEN Ret(EmptyText, rd.err, data)
        ELSE IF len(rd.data) = 0
             THEN Ret(MessageText("Item with id ", id, " not found"), nil, data)
        ELSE IF arr.err # nil THEN Ret(EmptyText, arr.err, data)
        ELSE IF i # 0 THEN Ret(MarshalUsers(RemoveAt(arr.users, i)), nil, data)
        ELSE Ret(MarshalUsers(arr.users), nil, data)


(* --------------------------------------------------------------- Perform *)
\* The one path the model's file system holds, and a path in a directory
\* that does not exist, which os.OpenFile cannot open or create.
GoodPath == "users.json"
BadPath == "nodir/users.json"

\* os.OpenFile(fileName, os.O_RDWR|os.O_CREATE, 0644)
OpenFile(f, fileName) ==
    IF fileName = GoodPath
    THEN [file |-> [data |-> f.data, exists |-> TRUE], err |-> nil]
    ELSE [file |-> f, err |-> ErrOpen(fileName)]

\* The value Perform leaves: what it wrote, what it returned, the file after.
Done(r, f) ==
    [file |-> [data |-> r.data, exists |-> f.exists],
     output |-> r.output, err |-> r.err]

\* Perform that looks at -operation before -fileName
Perform_OperationFirst(im, f, a, readOK) ==
    LET op == OpenFile(f, a.fileName)
        of == op.file
        fail(e, g) == Done(Ret(EmptyText, e, g.data), g)
    IN  IF a.operation = "" THEN fail(ErrOperationFlagMissing, f)
        ELSE IF a.fileName = "" THEN fail(ErrFileNameFlagMissing, f)
        ELSE IF op.err # nil THEN fail(op.err, f)
        ELSE CASE a.operation = "add" ->
                    IF a.item = EmptyText THEN fail(ErrItemFlagMissing, of)
                    ELSE IF im = "main.go"
                         THEN Done(addItem(of.data, readOK, a.item), of)
                         ELSE Done(addItem_000(of.data, readOK, a.item), of)
               [] a.operation = "list" ->
                    Done(listItems(of.data, readOK), of)
               [] a.operation = "findById" ->
                    IF a.id = "" THEN fail(ErrIDFlagMissing, of)
                    ELSE Done(findUserById(of.data, readOK, a.id), of)
               [] a.operation = "remove" ->
                    IF a.id = "" THEN fail(ErrIDFlagMissing, of)
                    ELSE IF im = "main.go"
                         THEN Done(removeUser(of.data, readOK, a.id), of)
                         ELSE Done(removeUser_000(of.data, readOK, a.id), of)
               [] OTHER -> fail(ErrNotAllowed(a.operation), of)

\* Perform (the same in both files; im selects whose addItem and removeUser
\* it calls)
Perform(im, f, a, readOK) ==
    LET op == OpenFile(f, a.fileName)
        of == op.file
        fail(e, g) == Done(Ret(EmptyText, e, g.data), g)
    IN  IF a.fileName = "" THEN fail(ErrFileNameFlagMissing, f)
        ELSE IF a.operation = "" THEN fail(ErrOperationFlagMissing, f)
        ELSE IF op.err # nil THEN fail(op.err, f)
        ELSE CASE a.operation = "add" ->
                    IF a.item = EmptyText THEN fail(ErrItemFlagMissing, of)
                    ELSE IF im = "main.go"
                         THEN Done(addItem(of.data, readOK, a.item), of)
                         ELSE Done(addItem_000(of.data, readOK, a.item), of)
               [] a.operation = "list" ->
                    Done(listItems(of.data, readOK), of)
               [] a.operation = "findById" ->
                    IF a.id = "" THEN fail(ErrIDFlagMissing, of)
                    ELSE Done(findUserById(of.data, readOK, a.id), of)
               [] a.operation = "remove" ->
                    IF a.id = "" THEN fail(ErrIDFlagMissing, of)
                    ELSE IF im = "main.go"
                         THEN Done(removeUser(of.data, readOK, a.id), of)
                         ELSE Done(removeUser_000(of.data, readOK, a.id), of)
               [] OTHER -> fail(ErrNotAllowed(a.operation), of)

(* ---------------------------------------------------------------- inputs *)
Impls == {"main.go", "part_000"}
Ids == {"1", "2"}
FileNames == {"", GoodPath, BadPath}

U1a == User("1", "a@b.com", 34)
U1b == User("1", "c@d.com", 50)
U2 == User("2", "c@d.com", 50)

\* {"id":"2"}: email and age are missing
Partial2 == << <<"id", "str", "2">> >>
\* {"name":"x","age":50,"id":"2","id":"1"}: an unknown key, another order,
\* a repeated key
Extra1 == << <<"name", "str", "x">>, <<"age", "num", "50">>,
             <<"id", "str", "2">>, <<"id", "str", "1">> >>
\* {"id":"1","age":"old"}: age is not a number
Mistyped1 == << <<"id", "str", "1">>, <<"age", "str", "old">> >>

\* the objects an array in the backing file is made of
FileObjects ==
    {MarshalMembers(U1a), MarshalMembers(U1b), MarshalMembers(U2),
     Partial2, Mistyped1}

RECURSIVE SeqsUpTo(_, _)
SeqsUpTo(S, n) ==
    IF n = 0 THEN {<<>>}
    ELSE LET shorter == SeqsUpTo(S, n - 1)
         IN  shorter \cup {Append(q, x) : q \in shorter, x \in S}

\* the contents the backing file can have before the first invocation
FileContents ==
    {EmptyText, GarbageText, MarshalUser(U1a)}
        \cup {ArrayText(q) : q \in SeqsUpTo(FileObjects, MaxFileLen)}

\* the -item texts; EmptyText is the flag left out
Items ==
    {EmptyText, GarbageText,
     MarshalUser(U1a), MarshalUser(U1b), MarshalUser(U2),
     ObjectText(Partial2), ObjectText(Extra1), ObjectText(Mistyped1),
     ArrayText(<<MarshalMembers(U1a), MarshalMembers(U1b)>>)}

\* the ids of a sequence of users, and whether two of them are the same
IdsOf(users) == {users[i].ID : i \in 1..Len(users)}
Distinct(users) ==
    \A i, j \in 1..Len(users) : i # j => users[i].ID # users[j].ID

(* -------------------------------------------------------------- monitors *)
\* run follows the invocations since Init as long as they are, from an
\* empty backing file, adds of valid records with pairwise distinct ids and
\* then one list: phase is "adding", then "listed"; anything else is "off".
RunAfter(r, a, readOK) ==
    LET u == UnmarshalUser(a.item)
        plain == a.fileName = GoodPath /\ readOK /\ r.phase = "adding"
    IN  IF plain /\ a.operation = "add" /\ a.item.kind = "object"
           /\ u.err = nil /\ u.user.ID \notin IdsOf(r.adds)
        THEN [phase |-> "adding", adds |-> Append(r.adds, u.user)]
        ELSE IF plain /\ a.operation = "list" /\ r.adds # <<>>
        THEN [phase |-> "listed", adds |-> r.adds]
        ELSE [phase |-> "off", adds |-> r.adds]

\* the four invocations of the scenario of the specification, in order
ScenarioCalls ==
    << Arguments(GoodPath, "add", MarshalUser(U1a), ""),
       Arguments(GoodPath, "add", MarshalUser(U1b), ""),
       Arguments(GoodPath, "remove", EmptyText, "1"),
       Arguments(GoodPath, "remove", EmptyText, "1") >>

\* scenario is the number of scenario steps done so far when the
\* invocations since Init, from an empty file, are exactly those; else -1.
ScenarioAfter(k, a, readOK) ==
    IF k >= 0 /\ k < Len(ScenarioCalls) /\ readOK /\ a = ScenarioCalls[k + 1]
    THEN k + 1 ELSE -1

(* ----------------------------------------------------------------- state *)
Init ==
    /\ impl \in Impls
    /\ \E data \in FileContents, exists \in BOOLEAN :
          /\ (~exists => data = EmptyText)
          /\ file = [data |-> data, exists |-> exists]
    /\ args = Arguments("", "", EmptyText, "")
    /\ output = EmptyText
    /\ err = NotCalled
    /\ run = [phase |-> IF file.data = EmptyText THEN "adding" ELSE "off",
              adds |-> <<>>]
    /\ scenario = IF file.data = EmptyText THEN 0 ELSE -1

\* One invocation of the program: main calls Perform with the parsed flags.
Invoke(a, readOK) ==
    LET r == Perform(impl, file, a, readOK)
    IN  /\ args' = a
        /\ output' = r.output
        /\ err' = r.err
        /\ file' = r.file
        /\ run' = RunAfter(run, a, readOK)
        /\ scenario' = ScenarioAfter(scenario, a, readOK)
        /\ UNCHANGED impl

PerformAdd ==
    \E fileName \in FileNames, item \in Items, readOK \in BOOLEAN :
        Invoke(Arguments(fileName, "add", item, ""), readOK)

PerformList ==
    \E fileName \in FileNames, readOK \in BOOLEAN :
        Invoke(Arguments(fileName, "list", EmptyText, ""), readOK)

PerformFindById ==
    \E fileName \in FileNames, id \in Ids \cup {""}, readOK \in BOOLEAN :
        Invoke(Arguments(fileName, "findById", EmptyText, id), readOK)

PerformRemove ==
    \E fileName \in FileNames, id \in Ids \cup {""}, readOK \in BOOLEAN :
        Invoke(Arguments(fileName, "remove", EmptyText, id), readOK)

\* -operation left out, or a name that is none of the four
PerformOther ==
    \E fileName \in FileNames, operation \in {"", "update"},
       item \in {EmptyText, MarshalUser(U2)}, id \in {"", "1"} :
        Invoke(Arguments(fileName, operation, item, id), TRUE)

Next ==
    \/ PerformAdd
    \/ PerformList
    \/ PerformFindById
    \/ PerformRemove
    \/ PerformOther

Spec == Init /\ [][Next]_vars

TypeOK ==
    /\ impl \in Impls
    /\ file.exists \in BOOLEAN
    /\ output.kind \in {"empty", "garbage", "object", "array", "message"}
    /\ scenario \in -1..4


(* ------------------------------------------------------------ properties *)
\* The stored collection: the records of the backing file, none when the
\* file has zero bytes.
WellFormed(data) == data = EmptyText \/ UnmarshalUsers(data).err = nil
Collection(data) == IF data = EmptyText THEN <<>> ELSE UnmarshalUsers(data).users

\* Perform was called with an openable file and operation op and the read
\* did not fail.
Ran(op) == args.fileName = GoodPath /\ args.operation = op /\ err # ErrRead

AlreadyExists(id) == MessageText("Item with id ", id, " already exists")
NotFound(id) == MessageText("Item with id ", id, " not found")

\* C1: from an empty backing file, adds of N valid records with pairwise
\* distinct ids followed by list write exactly those N records, in the
\* order they were added.
C1_AddsThenList ==
    run.phase = "listed" => err = nil /\ output = MarshalUsers(run.adds)

C3_Remove ==
    LET users == Collection(file.data)
        n == Len(users)
    IN  (Ran("remove") /\ args.id # "" /\ WellFormed(file.data)) =>
            IF \E i \in 1..n : users[i].ID = args.id
            THEN \E i \in 1..n :
                    /\ users[i].ID = args.id
                    /\ \A j \in 1..(i - 1) : users[j].ID # args.id
                    /\ output = MarshalUsers(
                          SubSeq(users, 1, i - 1) \o SubSeq(users, i + 1, n))
            ELSE output = NotFound(args.id)

\* C4: findById writes nothing when the file is empty or holds no record
\* of that id, writes exactly the serialized first record of that id when
\* there is one, and returns no error in any of the three cases.
C4_FindById ==
    LET users == Collection(file.data)
        n == Len(users)
    IN  (Ran("findById") /\ args.id # "" /\ WellFormed(file.data)) =>
            /\ err = nil
            /\ IF \E i \in 1..n : users[i].ID = args.id
               THEN \E i \in 1..n :
                       /\ users[i].ID = args.id
                       /\ \A j \in 1..(i - 1) : users[j].ID # args.id
                       /\ output = MarshalUser(users[i])
               ELSE output = EmptyText

\* a found record that is not the only one of its id, and whose text in
\* the file is not its serialized form
C4_Witness ==
    /\ Ran("findById") /\ err = nil
    /\ file.data = ArrayText(<<Partial2, MarshalMembers(U2)>>)
    /\ output = MarshalUser(User("2", "", 0))

\* C5: from an empty file, add of record 1, add of another record of id 1,
\* remove 1, remove 1 write in turn the one-element array of the first
\* record, "Item with id 1 already exists" (the file holding only the
\* first record), "[]" and "Item with id 1 not found".
C5_Scenario ==
    /\ scenario = 1 => output = MarshalUsers(<<U1a>>)
    /\ scenario = 2 => /\ output = AlreadyExists("1")
                       /\ file.data = MarshalUsers(<<U1a>>)
    /\ scenario = 3 => output = MarshalUsers(<<>>)
    /\ scenario = 4 => output = NotFound("1")

Operations == {"add", "list", "findById", "remove"}

\* what Perform answers to arguments that are wrong once the file is open
RejectedAfterOpen ==
    /\ (args.operation = "add" /\ args.item = EmptyText)
          => err = ErrItemFlagMissing /\ output = EmptyText
    /\ (args.operation \in {"findById", "remove"} /\ args.id = "")
          => err = ErrIDFlagMissing /\ output = EmptyText
    /\ args.operation \notin Operations
          => err = ErrNotAllowed(args.operation) /\ output = EmptyText

\* C6 as stated: an empty fileName, else an empty operation, else an empty
\* item of add, an empty id of findById or remove, or an unknown operation
\* each return their own error, and nothing is written.
C6_AsStated ==
    err # NotCalled =>
        IF args.fileName = ""
        THEN err = ErrFileNameFlagMissing /\ output = EmptyText
        ELSE IF args.operation = ""
        THEN err = ErrOperationFlagMissing /\ output = EmptyText
        ELSE RejectedAfterOpen

\* C6: as above, with the failure to open the file coming after the empty
\* operation and before the checks of item, id and the operation's name.
C6_Precedence ==
    err # NotCalled =>
        IF args.fileName = ""
        THEN err = ErrFileNameFlagMissing /\ output = EmptyText
        ELSE IF args.operation = ""
        THEN err = ErrOperationFlagMissing /\ output = EmptyText
        ELSE IF args.fileName # GoodPath
        THEN err = ErrOpen(args.fileName) /\ output = EmptyText
        ELSE RejectedAfterOpen

C6_Witness ==
    /\ args.fileName = GoodPath /\ args.operation = "update"
    /\ args.item # EmptyText
    /\ err = ErrNotAllowed("update")

\* C7: when an operation returns a read error or a JSON decoding error, of
\* the file or of the item, it has written nothing and the backing file's
\* content is what it was.
C7_NoPartialWrite ==
    [][ err' \in {ErrRead, ErrSyntax, ErrType}
            => output' = EmptyText /\ file'.data = file.data ]_vars

\* the item does not decode, the file does
C7_Witness ==
    /\ Ran("add")
    /\ file.data.kind = "array" /\ UnmarshalUsers(file.data).err = nil
    /\ args.item = ObjectText(Mistyped1)
    /\ err = ErrType

\* C8: when no two stored records have the same id, no two records of the
\* stored collection, nor of a record list written by add, list or remove,
\* have the same id.
C8_Unique ==
    ( /\ WellFormed(file.data) /\ Distinct(Collection(file.data))
      /\ output.kind = "array" /\ args.operation \in {"add", "list", "remove"} )
        => Distinct([i \in 1..Len(output.body) |->
                        DecodeMembers(ZeroUser, output.body[i])])

\* C9: add of an item that is not the text of one User fails with a parse
\* error whatever the backing file holds, the empty file included, and the
\* item is not written.
C9_AlwaysParses ==
    (Ran("add") /\ args.item # EmptyText /\ UnmarshalUser(args.item).err # nil)
        => err \in {ErrSyntax, ErrType} /\ output = EmptyText

====
